---- MODULE Spec2Model ----
(***************************************************************************)
(* A model of the form controller of use-watcher-form (useWatcherForm.tsx) *)
(* and of the watcher containers it drives: values, changes, errors,       *)
(* touched, keys, formKey, isSubmitting and the stored baseline.           *)
(***************************************************************************)
EXTENDS Integers, Sequences, FiniteSets, TLC

(***************************************************************************)
(* JavaScript values.  A value is a tagged record: undefined, null, a      *)
(* string, a number, a boolean, or an object (a function from keys to      *)
(* values).  A dotted path 'a.b' is the sequence of its segments.          *)
(***************************************************************************)
Undefined == [k |-> "u"]
Null == [k |-> "n"]
Str(s) == [k |-> "s", v |-> s]
Num(n) == [k |-> "i", v |-> n]
Bool(b) == [k |-> "b", v |-> b]
Obj(f) == [k |-> "o", f |-> f]
EmptyObj == Obj(<<>>)

IsObj(n) == n.k = "o"

\* JS truthiness: objects are truthy, '' / 0 / false / null / undefined are not
Truthy(n) ==
  \/ n.k = "o"
  \/ n.k = "s" /\ n.v # ""
  \/ n.k = "i" /\ n.v # 0
  \/ n.k = "b" /\ n.v

\* Object.keys(o)
ObjectKeys(n) == IF IsObj(n) THEN DOMAIN n.f ELSE {}

\* getDeepPath(obj, segments): walk the segments, undefined when one is missing
RECURSIVE getDeepPath(_, _)
getDeepPath(obj, path) ==
  IF path = <<>> THEN obj
  ELSE IF IsObj(obj) /\ Head(path) \in DOMAIN obj.f
       THEN getDeepPath(obj.f[Head(path)], Tail(path))
       ELSE Undefined

\* WatcherMap.getPath(path)
getPath(state, path) == getDeepPath(state, path)

\* a setPath that takes the dotted path for one key: it writes the value at
\* the first segment
setPathFlat(state, path, value) ==
  IF path = <<>> THEN value
  ELSE Obj((Head(path) :> value) @@ (IF IsObj(state) THEN state.f ELSE <<>>))

\* WatcherMap.setPath(path, value): a copy of the state with the value at the
\* path; the objects along the path are copied, their other keys kept, and
\* missing intermediate objects created
RECURSIVE setPath(_, _, _)
setPath(state, path, value) ==
  IF path = <<>> THEN value
  ELSE LET h == Head(path)
           base == IF IsObj(state) THEN state.f ELSE <<>>
           child == IF h \in DOMAIN base THEN base[h] ELSE Undefined
       IN  Obj((h :> setPath(child, Tail(path), value)) @@ base)

\* WatcherMap.clearPath(path, removeEmptyObjects): delete the key at the path
\* and, with removeEmptyObjects, every parent object the deletion leaves empty
RECURSIVE clearPath(_, _, _)
clearPath(state, path, removeEmptyObjects) ==
  IF path = <<>> \/ ~IsObj(state) \/ Head(path) \notin DOMAIN state.f THEN state
  ELSE LET h == Head(path)
           without == Obj([x \in DOMAIN state.f \ {h} |-> state.f[x]])
       IN  IF Len(path) = 1 THEN without
           ELSE LET child == clearPath(state.f[h], Tail(path), removeEmptyObjects)
                IN  IF removeEmptyObjects /\ child = EmptyObj /\ state.f[h] # EmptyObj
                    THEN without
                    ELSE Obj((h :> child) @@ state.f)

(***************************************************************************)
(* Bounds and the inputs the operations are driven with.                   *)
(***************************************************************************)
MaxKey == 1
MaxEditKey == 2
MaxFormKey == 2
MaxPairs == 2

\* the field paths the form is edited at
Paths == {<<"name">>, <<"address", "street">>}

\* the values typed into a field
Vals == {Str(""), Str("x")}

\* the objects a caller passes as initialValues or as reset's newValues,
\* by identity; "fresh" is an object the values container made itself
Objs == {"A", "B"}
Content(o) ==
  IF o = "A" THEN Obj([name |-> Str("x")])
  ELSE Obj([name |-> Str(""),
            address |-> Obj([street |-> Str("x"), city |-> Str("x")])])

\* the validator prop: absent, or a function of the values tree
Validators == {"none", "required"}

\* the validators a form is re-rendered with when its validation is studied:
\* "nullable" reports a valid field as null, "deep" reports a three-segment
\* path and returns {} when valid, "void" returns nothing
AllValidators == Validators \cup {"nullable", "deep", "void"}

\* the field paths validation is asked for, three segments deep
DeepPaths == Paths \cup {<<"address", "geo", "lat">>}

\* the validators of a form with a cross-field rule: "match" reports name
\* when it differs from address.street
CrossValidators == {"required", "match"}

\* validator(values); "required": name and address.street are required
validatorResult(v, vals) ==
  IF v \in {"none", "void"} THEN Undefined
  ELSE IF v = "match"
  THEN Obj([name |-> IF getDeepPath(vals, <<"name">>) =
                        getDeepPath(vals, <<"address", "street">>)
                     THEN Undefined ELSE Str("mismatch")])
  ELSE IF v = "nullable"
  THEN Obj([name |-> IF Truthy(getDeepPath(vals, <<"name">>))
                     THEN Null ELSE Str("required"),
            address |-> Undefined])
  ELSE IF v = "deep"
  THEN IF Truthy(getDeepPath(vals, <<"address", "geo", "lat">>))
       THEN EmptyObj
       ELSE Obj([address |-> Obj([geo |-> Obj([lat |-> Str("required")])])])
  ELSE Obj([name |-> IF Truthy(getDeepPath(vals, <<"name">>))
                     THEN Undefined ELSE Str("required"),
            address |-> IF Truthy(getDeepPath(vals, <<"address", "street">>))
                        THEN Undefined
                        ELSE Obj([street |-> Str("required")])])

\* what an onSubmit handler resolves to
Results == {Str("ok"), Undefined}

Policies == {"No", "Always", "OnlyIfClean"}

VARIABLES
  values,            \* values.getState()
  valuesRef,         \* the identity of the object values.getState() returns
  changes,           \* changes.getState()
  errors,            \* errors.getState()
  touched,           \* touched.getState()
  keys,              \* keys.getState()
  formKey,           \* formKey.getState()
  isSubmitting,      \* isSubmitting.getState()
  initialValuesCopy, \* the stored baseline (identity of the object)
  initialValues,     \* prop: identity of the initialValues object
  validator,         \* prop: the validator of the latest render
  validator0,        \* the validator of the first render, which the
                     \* callbacks memoised with [] keep
  submitValidator,   \* the validator inside the validateAll that submit keeps
  onSubmit,          \* prop: is an onSubmit handler configured
  onValidationErrors,\* prop: is an onValidationErrors callback configured
  resetOnInitialValuesChange, \* prop
  inflight,          \* onSubmit invocations that have not settled
  watching,          \* are subscribers attached whose callbacks record what
                     \* they are notified of
  obs                \* what the last operation called and returned, and
                     \* what the subscribers recorded during it

vars == <<values, valuesRef, changes, errors, touched, keys, formKey,
          isSubmitting, initialValuesCopy, initialValues, validator,
          validator0, submitValidator, onSubmit, onValidationErrors,
          resetOnInitialValuesChange, inflight, watching, obs>>

\* the props of the form, and the subscribers its owner attaches to it
props == <<initialValues, validator, validator0, submitValidator, onSubmit,
           onValidationErrors, resetOnInitialValuesChange, watching>>

\* the record of an operation that called nothing, notified nobody and
\* returned undefined
Quiet(op, args) ==
  [op |-> op, args |-> args, validatorCalls |-> 0, onSubmitArgs |-> <<>>,
   onValidationErrorsArgs |-> <<>>, ret |-> Undefined, seen |-> <<>>]

\* what a subscriber's callback records of one notification: the container
\* that notified, the paths written (the root path <<>> for a write of the
\* whole state) and the values and changes trees the callback reads
Note(c, paths, vals, chgs) ==
  [c |-> c, paths |-> paths, values |-> vals, changes |-> chgs]

\* the notes the subscribers make of the notifications of an operation
Seen(notes) == IF watching THEN notes ELSE <<>>

\* a subscriber at path q is notified of a write at path p when one is a
\* prefix of the other
Related(p, q) ==
  \A i \in 1..(IF Len(p) < Len(q) THEN Len(p) ELSE Len(q)) : p[i] = q[i]

\* the notification of a batch of writes to container c: one, naming every
\* path written, when the batch has ended; none for a batch without writes
batch(c, pairs, vals, chgs) ==
  IF pairs = <<>> THEN <<>>
  ELSE <<Note(c, {pairs[i][1] : i \in 1..Len(pairs)}, vals, chgs)>>

\* the state after the first render
Mount ==
  /\ initialValues \in Objs
  /\ values = Content(initialValues)
  /\ valuesRef = initialValues
  /\ changes = EmptyObj
  /\ errors = EmptyObj
  /\ touched = EmptyObj
  /\ keys = EmptyObj
  /\ formKey = 0
  /\ isSubmitting = FALSE
  /\ initialValuesCopy = initialValues
  /\ validator \in Validators
  /\ validator0 = validator
  /\ submitValidator = validator
  /\ onSubmit \in BOOLEAN
  /\ onValidationErrors \in BOOLEAN
  /\ resetOnInitialValuesChange \in Policies
  /\ inflight = 0
  /\ watching = FALSE
  /\ obs = Quiet("mount", <<>>)

\* the number of validator calls one validation with validator v makes
Calls(v) == IF v = "none" THEN 0 ELSE 1

\* a validateField that reads the result at the dotted path as one key
fieldResultFlat(v, vals, path) ==
  IF Len(path) = 1 THEN getDeepPath(validatorResult(v, vals), path)
  ELSE Undefined

\* a validateField that hands the validator a tree with the one field in it
fieldResultOnlyField(v, vals, path) ==
  getDeepPath(validatorResult(v, setPath(EmptyObj, path, getPath(vals, path))),
              path)

\* validateField's result: the validator's result for the values, at the path
fieldResult(v, vals, path) == getDeepPath(validatorResult(v, vals), path)

\* validateField's write to errors
validateFieldErrors(v, vals, errs, path) ==
  IF Truthy(fieldResult(v, vals, path))
  THEN setPath(errs, path, fieldResult(v, vals, path))
  ELSE clearPath(errs, path, TRUE)

\* validateField(path), as the latest render returns it
validateField(path) ==
  /\ errors' = validateFieldErrors(validator, values, errors, path)
  /\ obs' = [Quiet("validateField", <<path>>) EXCEPT
               !.validatorCalls = Calls(validator),
               !.ret = fieldResult(validator, values, path),
               !.seen = Seen(<<Note("errors", {path}, values, changes)>>)]
  /\ UNCHANGED <<values, valuesRef, changes, touched, keys, formKey,
                 isSubmitting, initialValuesCopy, inflight>>
  /\ UNCHANGED props

\* a hasErrors that counts the keys of the result, whatever their values
hasErrorsAnyKey(validationResult) ==
  /\ Truthy(validationResult)
  /\ ObjectKeys(validationResult) # {}

\* a hasErrors that counts the top-level keys whose value is a message
hasErrorsStringsOnly(validationResult) ==
  /\ Truthy(validationResult)
  /\ \E key \in ObjectKeys(validationResult) :
       /\ validationResult.f[key].k = "s"
       /\ Truthy(validationResult.f[key])

\* hasErrors: some top-level key of the result has a truthy value
hasErrors(validationResult) ==
  /\ Truthy(validationResult)
  /\ \E key \in ObjectKeys(validationResult) : Truthy(validationResult.f[key])

\* what validateAll returns with validator v
validateAllResult(v, vals) ==
  IF v = "none" THEN [hasErrors |-> FALSE, errors |-> Undefined]
  ELSE [hasErrors |-> hasErrors(validatorResult(v, vals)),
        errors |-> validatorResult(v, vals)]

\* a validateAll that returns its result without storing it
validateAllErrorsKeep(v, vals, errs) == errs

\* a validateAll that empties errors when there is no validator
validateAllErrorsClear(v, vals, errs) ==
  IF v = "none" THEN EmptyObj
  ELSE IF validatorResult(v, vals) \in {Undefined, Null} THEN EmptyObj
  ELSE validatorResult(v, vals)

\* a validateAll that merges the result into errors, key by key
validateAllErrorsMerge(v, vals, errs) ==
  LET r == validatorResult(v, vals)
  IN  IF v = "none" THEN errs
      ELSE IF r \in {Undefined, Null} THEN errs
      ELSE Obj([key \in ObjectKeys(errs) \cup ObjectKeys(r) |->
                  IF key \in ObjectKeys(r) THEN r.f[key] ELSE errs.f[key]])

\* validateAll's write to errors
validateAllErrors(v, vals, errs) ==
  IF v = "none" THEN errs
  ELSE IF validatorResult(v, vals) \in {Undefined, Null} THEN EmptyObj
  ELSE validatorResult(v, vals)

\* the notification of validateAll's errors.setState
validateAllSeen(v) ==
  IF v = "none" THEN <<>> ELSE <<Note("errors", {<<>>}, values, changes)>>

\* validateAll(), as the latest render returns it
validateAll ==
  /\ errors' = validateAllErrors(validator, values, errors)
  /\ obs' = [Quiet("validateAll", <<>>) EXCEPT
               !.validatorCalls = Calls(validator),
               !.ret = validateAllResult(validator, values),
               !.seen = Seen(validateAllSeen(validator))]
  /\ UNCHANGED <<values, valuesRef, changes, touched, keys, formKey,
                 isSubmitting, initialValuesCopy, inflight>>
  /\ UNCHANGED props

\* an incrementKey that sets the key to 1 whatever it was
incrementKeyKeysToOne(ks, path) == setPath(ks, path, Num(1))

\* an incrementKey that takes the dotted path for one key
incrementKeyKeysFlat(ks, path) ==
  LET current == getPath(ks, path)
  IN  IF ~Truthy(current) THEN setPathFlat(ks, path, Num(1))
      ELSE setPathFlat(ks, path, Num(current.v + 1))

\* incrementKey's write to keys
incrementKeyKeys(ks, path) ==
  LET current == getPath(ks, path)
  IN  IF ~Truthy(current) THEN setPath(ks, path, Num(1))
      ELSE setPath(ks, path, Num(current.v + 1))

\* the render key at a path, 0 when absent
KeyAt(ks, path) == IF getPath(ks, path).k = "i" THEN getPath(ks, path).v ELSE 0

\* incrementKey(path)
incrementKey(path) ==
  /\ keys' = incrementKeyKeys(keys, path)
  /\ obs' = [Quiet("incrementKey", <<path>>) EXCEPT
               !.seen = Seen(<<Note("keys", {path}, values, changes)>>)]
  /\ UNCHANGED <<values, valuesRef, changes, errors, touched, formKey,
                 isSubmitting, initialValuesCopy, inflight>>
  /\ UNCHANGED props

\* a setFieldValue that keeps in changes a diff against the baseline: a value
\* equal to the baseline's is removed from changes
setFieldValueBodyDiff(path, value, skipValidation, skipIncrementKey) ==
  /\ changes' = IF value = getPath(Content(initialValuesCopy), path)
                THEN clearPath(changes, path, TRUE)
                ELSE setPath(changes, path, value)
  /\ values' = setPath(values, path, value)
  /\ valuesRef' = "fresh"
  /\ errors' = IF skipValidation THEN errors
               ELSE validateFieldErrors(validator0, values', errors, path)
  /\ keys' = IF skipIncrementKey THEN keys ELSE incrementKeyKeys(keys, path)
  /\ UNCHANGED <<touched, formKey, isSubmitting, initialValuesCopy, inflight>>
  /\ UNCHANGED props

\* a setFieldValue that validates before it writes
setFieldValueBodyValidateFirst(path, value, skipValidation, skipIncrementKey) ==
  /\ changes' = setPath(changes, path, value)
  /\ values' = setPath(values, path, value)
  /\ valuesRef' = "fresh"
  /\ errors' = IF skipValidation THEN errors
               ELSE validateFieldErrors(validator0, values, errors, path)
  /\ keys' = IF skipIncrementKey THEN keys ELSE incrementKeyKeys(keys, path)
  /\ UNCHANGED <<touched, formKey, isSubmitting, initialValuesCopy, inflight>>
  /\ UNCHANGED props

\* a setFieldValue that validates whatever skipValidation says
setFieldValueBodyValidating(path, value, skipValidation, skipIncrementKey) ==
  /\ changes' = setPath(changes, path, value)
  /\ values' = setPath(values, path, value)
  /\ valuesRef' = "fresh"
  /\ errors' = validateFieldErrors(validator0, values', errors, path)
  /\ keys' = IF skipIncrementKey THEN keys ELSE incrementKeyKeys(keys, path)
  /\ UNCHANGED <<touched, formKey, isSubmitting, initialValuesCopy, inflight>>
  /\ UNCHANGED props

\* setFieldValue's writes; the callback is memoised with [], so it validates
\* with the validateField of the first render
setFieldValueBody(path, value, skipValidation, skipIncrementKey) ==
  /\ changes' = setPath(changes, path, value)
  /\ values' = setPath(values, path, value)
  /\ valuesRef' = "fresh"
  /\ errors' = IF skipValidation THEN errors
               ELSE validateFieldErrors(validator0, values', errors, path)
  /\ keys' = IF skipIncrementKey THEN keys ELSE incrementKeyKeys(keys, path)
  /\ UNCHANGED <<touched, formKey, isSubmitting, initialValuesCopy, inflight>>
  /\ UNCHANGED props

\* a setFieldValue that writes values before changes
setFieldValueSeenValuesFirst(path, value, skipValidation, skipIncrementKey) ==
  LET vals == setPath(values, path, value)
      chgs == setPath(changes, path, value)
  IN  <<Note("values", {path}, vals, changes),
        Note("changes", {path}, vals, chgs)>>
      \o (IF skipValidation THEN <<>>
          ELSE <<Note("errors", {path}, vals, chgs)>>)
      \o (IF skipIncrementKey THEN <<>>
          ELSE <<Note("keys", {path}, vals, chgs)>>)

\* the notifications of setFieldValue's writes, in the order of the writes:
\* changes, values, then errors (validateField) and keys (incrementKey)
setFieldValueSeen(path, value, skipValidation, skipIncrementKey) ==
  LET vals == setPath(values, path, value)
      chgs == setPath(changes, path, value)
  IN  <<Note("changes", {path}, values, chgs),
        Note("values", {path}, vals, chgs)>>
      \o (IF skipValidation THEN <<>>
          ELSE <<Note("errors", {path}, vals, chgs)>>)
      \o (IF skipIncrementKey THEN <<>>
          ELSE <<Note("keys", {path}, vals, chgs)>>)

\* setFieldValue(path, value, {skipValidation, skipIncrementKey})
setFieldValue(path, value, skipValidation, skipIncrementKey) ==
  /\ setFieldValueBody(path, value, skipValidation, skipIncrementKey)
  /\ obs' = [Quiet("setFieldValue",
                   <<path, value, skipValidation, skipIncrementKey>>) EXCEPT
               !.validatorCalls = IF skipValidation THEN 0 ELSE Calls(validator0),
               !.seen = Seen(setFieldValueSeen(path, value, skipValidation,
                                               skipIncrementKey))]

\* the option names a caller puts in setFieldValue's opts object
Options == {"skipValidation", "skipIncrementKey", "skipChanges"}

\* setFieldValue(path, value, opts), opts being the set of the options given
\* as true: the function reads opts.skipValidation and opts.skipIncrementKey
\* and no other key of the object
setFieldValueOpts(path, value, opts) ==
  /\ setFieldValueBody(path, value, "skipValidation" \in opts,
                       "skipIncrementKey" \in opts)
  /\ obs' = [Quiet("setFieldValue", <<path, value, opts>>) EXCEPT
               !.validatorCalls =
                  IF "skipValidation" \in opts THEN 0 ELSE Calls(validator0),
               !.seen = Seen(setFieldValueSeen(path, value,
                                               "skipValidation" \in opts,
                                               "skipIncrementKey" \in opts))]

\* the render keys one incrementKey per listed path, in order, leaves
\* a key loop that stops after the first pair
incrementKeysFirst(ks, pairs) ==
  IF pairs = <<>> THEN ks ELSE incrementKeyKeys(ks, Head(pairs)[1])

RECURSIVE incrementKeys(_, _)
incrementKeys(ks, pairs) ==
  IF pairs = <<>> THEN ks
  ELSE incrementKeys(incrementKeyKeys(ks, Head(pairs)[1]), Tail(pairs))

\* a container after the setPath of every pair, in order (one batch)
RECURSIVE setPaths(_, _)
setPaths(state, pairs) ==
  IF pairs = <<>> THEN state
  ELSE setPaths(setPath(state, Head(pairs)[1], Head(pairs)[2]), Tail(pairs))

\* a setFieldValues that writes the pairs one by one, outside a batch
setFieldValuesSeenUnbatched(newValues) ==
  [i \in 1..Len(newValues) |->
     Note("changes", {newValues[i][1]}, values,
          setPaths(changes, SubSeq(newValues, 1, i)))]
  \o [i \in 1..Len(newValues) |->
       Note("values", {newValues[i][1]},
            setPaths(values, SubSeq(newValues, 1, i)),
            setPaths(changes, newValues))]
  \o [i \in 1..Len(newValues) |->
       Note("keys", {newValues[i][1]}, setPaths(values, newValues),
            setPaths(changes, newValues))]

\* the notifications of setFieldValues: the batch of changes, the batch of
\* values, then one incrementKey per pair
setFieldValuesSeen(newValues) ==
  batch("changes", newValues, values, setPaths(changes, newValues))
  \o batch("values", newValues, setPaths(values, newValues),
           setPaths(changes, newValues))
  \o [i \in 1..Len(newValues) |->
       Note("keys", {newValues[i][1]}, setPaths(values, newValues),
            setPaths(changes, newValues))]

\* setFieldValues(newValues): no validation
setFieldValues(newValues) ==
  /\ changes' = setPaths(changes, newValues)
  /\ values' = setPaths(values, newValues)
  /\ valuesRef' = IF newValues = <<>> THEN valuesRef ELSE "fresh"
  /\ keys' = incrementKeys(keys, newValues)
  /\ obs' = [Quiet("setFieldValues", <<newValues>>) EXCEPT
               !.seen = Seen(setFieldValuesSeen(newValues))]
  /\ UNCHANGED <<errors, touched, formKey, isSubmitting, initialValuesCopy,
                 inflight>>
  /\ UNCHANGED props

\* a reset that restores the initialValues prop instead of the stored baseline
resetBodyFromProp(newValues, forceRender) ==
  /\ changes' = EmptyObj
  /\ errors' = EmptyObj
  /\ touched' = EmptyObj
  /\ IF newValues # "none"
     THEN /\ values' = Content(newValues)
          /\ valuesRef' = newValues
          /\ initialValuesCopy' = newValues
     ELSE /\ values' = Content(initialValues)
          /\ valuesRef' = initialValues
          /\ UNCHANGED initialValuesCopy
  /\ formKey' = IF forceRender THEN formKey + 1 ELSE formKey

\* a reset that sets the new values without storing them as the baseline
resetBodyNoStore(newValues, forceRender) ==
  /\ changes' = EmptyObj
  /\ errors' = EmptyObj
  /\ touched' = EmptyObj
  /\ IF newValues # "none"
     THEN /\ values' = Content(newValues)
          /\ valuesRef' = newValues
          /\ UNCHANGED initialValuesCopy
     ELSE /\ values' = Content(initialValuesCopy)
          /\ valuesRef' = initialValuesCopy
          /\ UNCHANGED initialValuesCopy
  /\ formKey' = IF forceRender THEN formKey + 1 ELSE formKey

\* a reset that bumps formKey whatever forceRender says
resetBodyAlwaysRender(newValues, forceRender) ==
  /\ changes' = EmptyObj
  /\ errors' = EmptyObj
  /\ touched' = EmptyObj
  /\ IF newValues # "none"
     THEN /\ values' = Content(newValues)
          /\ valuesRef' = newValues
          /\ initialValuesCopy' = newValues
     ELSE /\ values' = Content(initialValuesCopy)
          /\ valuesRef' = initialValuesCopy
          /\ UNCHANGED initialValuesCopy
  /\ formKey' = formKey + 1

\* a reset that leaves changes as it is
resetBodyKeepChanges(newValues, forceRender) ==
  /\ UNCHANGED changes
  /\ errors' = EmptyObj
  /\ touched' = EmptyObj
  /\ IF newValues # "none"
     THEN /\ values' = Content(newValues)
          /\ valuesRef' = newValues
          /\ initialValuesCopy' = newValues
     ELSE /\ values' = Content(initialValuesCopy)
          /\ valuesRef' = initialValuesCopy
          /\ UNCHANGED initialValuesCopy
  /\ formKey' = IF forceRender THEN formKey + 1 ELSE formKey

\* a reset that leaves errors and touched as they are
resetBodyKeepErrors(newValues, forceRender) ==
  /\ changes' = EmptyObj
  /\ UNCHANGED <<errors, touched>>
  /\ IF newValues # "none"
     THEN /\ values' = Content(newValues)
          /\ valuesRef' = newValues
          /\ initialValuesCopy' = newValues
     ELSE /\ values' = Content(initialValuesCopy)
          /\ valuesRef' = initialValuesCopy
          /\ UNCHANGED initialValuesCopy
  /\ formKey' = IF forceRender THEN formKey + 1 ELSE formKey

\* reset's writes: changes, errors and touched emptied; values set to the
\* new values (which also become the baseline) or to the baseline; formKey
\* bumped with forceRender.  newValues is an object of Objs or "none".
resetBody(newValues, forceRender) ==
  /\ changes' = EmptyObj
  /\ errors' = EmptyObj
  /\ touched' = EmptyObj
  /\ IF newValues # "none"
     THEN /\ values' = Content(newValues)
          /\ valuesRef' = newValues
          /\ initialValuesCopy' = newValues
     ELSE /\ values' = Content(initialValuesCopy)
          /\ valuesRef' = initialValuesCopy
          /\ UNCHANGED initialValuesCopy
  /\ formKey' = IF forceRender THEN formKey + 1 ELSE formKey

\* the notifications of reset's four setState calls, in their order
resetSeen(newValues) ==
  <<Note("changes", {<<>>}, values, EmptyObj),
    Note("errors", {<<>>}, values, EmptyObj),
    Note("touched", {<<>>}, values, EmptyObj),
    Note("values", {<<>>},
         Content(IF newValues # "none" THEN newValues ELSE initialValuesCopy),
         EmptyObj)>>

\* a reset that also clears the submitting flag
resetClearsSubmitting(newValues, forceRender) ==
  /\ forceRender => formKey < MaxFormKey
  /\ resetBody(newValues, forceRender)
  /\ isSubmitting' = FALSE
  /\ obs' = [Quiet("reset", <<newValues, forceRender>>) EXCEPT
               !.seen = Seen(resetSeen(newValues))]
  /\ UNCHANGED <<keys, inflight>>
  /\ UNCHANGED props

\* a reset that also empties the render keys
resetClearsKeys(newValues, forceRender) ==
  /\ forceRender => formKey < MaxFormKey
  /\ resetBody(newValues, forceRender)
  /\ keys' = EmptyObj
  /\ obs' = [Quiet("reset", <<newValues, forceRender>>) EXCEPT
               !.seen = Seen(resetSeen(newValues))]
  /\ UNCHANGED <<isSubmitting, inflight>>
  /\ UNCHANGED props

\* reset({newValues, forceRender})
reset(newValues, forceRender) ==
  /\ forceRender => formKey < MaxFormKey
  /\ resetBody(newValues, forceRender)
  /\ obs' = [Quiet("reset", <<newValues, forceRender>>) EXCEPT
               !.seen = Seen(resetSeen(newValues))]
  /\ UNCHANGED <<keys, isSubmitting, inflight>>
  /\ UNCHANGED props

\* the handler's argument: a raw value, or an event-shaped object whose
\* target.value is the value
Event(v) == Obj([target |-> Obj([value |-> v])])

\* a normalisation that takes every object for an event
newValueOfObject(e) ==
  IF IsObj(e) THEN getDeepPath(e, <<"target", "value">>) ELSE e

\* onChange's normalisation of its argument
newValue(e) ==
  IF IsObj(e) /\ "target" \in DOMAIN e.f
  THEN getDeepPath(e, <<"target", "value">>)
  ELSE e

\* what a throw statement, or a property read from null or undefined, leaves
\* in obs.ret
Error(message) == [k |-> "throw", message |-> message]

\* e.target.value throws when e has a target that is null or undefined
targetValueThrows(e) ==
  /\ IsObj(e)
  /\ "target" \in DOMAIN e.f
  /\ e.f.target.k \in {"n", "u"}

\* an onChange that validates on every change
onChangeValidating(path, e) ==
  /\ setFieldValueBody(path, newValue(e), FALSE, TRUE)
  /\ obs' = [Quiet("onChange", <<path, e>>) EXCEPT
               !.validatorCalls = Calls(validator0),
               !.seen = Seen(setFieldValueSeen(path, newValue(e), FALSE, TRUE))]

\* an onChange that lets setFieldValue increment the render key
onChangeWithKey(path, e) ==
  LET prevHasError == Truthy(getPath(errors, path))
  IN  /\ setFieldValueBody(path, newValue(e), ~prevHasError, FALSE)
      /\ obs' = [Quiet("onChange", <<path, e>>) EXCEPT
                   !.validatorCalls =
                      IF ~prevHasError THEN 0 ELSE Calls(validator0),
                   !.seen = Seen(setFieldValueSeen(path, newValue(e),
                                                   ~prevHasError, FALSE))]

\* getInputEventHandlers(path).onChange(e): setFieldValue without a key
\* increment, validating only a field that is already in error
onChange(path, e) ==
  LET prevHasError == Truthy(getPath(errors, path))
  IN  IF targetValueThrows(e)
      THEN /\ obs' = [Quiet("onChange", <<path, e>>) EXCEPT
                        !.ret = Error("TypeError")]
           /\ UNCHANGED <<values, valuesRef, changes, errors, touched, keys,
                          formKey, isSubmitting, initialValuesCopy, inflight>>
           /\ UNCHANGED props
      ELSE /\ setFieldValueBody(path, newValue(e), ~prevHasError, TRUE)
           /\ obs' = [Quiet("onChange", <<path, e>>) EXCEPT
                        !.validatorCalls =
                           IF ~prevHasError THEN 0 ELSE Calls(validator0),
                        !.seen = Seen(setFieldValueSeen(path, newValue(e),
                                                        ~prevHasError, TRUE))]

\* an onFocus that also validates the field
onFocusValidating(path) ==
  /\ touched' = setPath(touched, path, Bool(TRUE))
  /\ errors' = validateFieldErrors(validator0, values, errors, path)
  /\ obs' = [Quiet("onFocus", <<path>>) EXCEPT
               !.validatorCalls = Calls(validator0),
               !.seen = Seen(<<Note("touched", {path}, values, changes),
                               Note("errors", {path}, values, changes)>>)]
  /\ UNCHANGED <<values, valuesRef, changes, keys, formKey,
                 isSubmitting, initialValuesCopy, inflight>>
  /\ UNCHANGED props

\* getInputEventHandlers(path).onFocus()
onFocus(path) ==
  /\ touched' = setPath(touched, path, Bool(TRUE))
  /\ obs' = [Quiet("onFocus", <<path>>) EXCEPT
               !.seen = Seen(<<Note("touched", {path}, values, changes)>>)]
  /\ UNCHANGED <<values, valuesRef, changes, errors, keys, formKey,
                 isSubmitting, initialValuesCopy, inflight>>
  /\ UNCHANGED props

\* getInputEventHandlers(path).onBlur(): the validateField of the first
\* render, which the handlers memoised with [] keep
onBlur(path) ==
  /\ errors' = validateFieldErrors(validator0, values, errors, path)
  /\ obs' = [Quiet("onBlur", <<path>>) EXCEPT
               !.validatorCalls = Calls(validator0),
               !.ret = fieldResult(validator0, values, path),
               !.seen = Seen(<<Note("errors", {path}, values, changes)>>)]
  /\ UNCHANGED <<values, valuesRef, changes, touched, keys, formKey,
                 isSubmitting, initialValuesCopy, inflight>>
  /\ UNCHANGED props

\* what useWatcherFormCtx() returns: null outside a WatcherFormProvider, the
\* form inside one
Contexts == {"null", "form"}

\* the Field record useField returns, with the subscriptions its hooks made
Field(path) ==
  [k |-> "field",
   key |-> getPath(keys, path),
   error |-> getPath(errors, path),
   defaultValue |-> getPath(values, path),
   path |-> path,
   subscriptions |-> {<<"keys", path>>, <<"errors", path>>},
   handlers |-> {"onChange", "onFocus", "onBlur"}]

\* a useField without the test of the context: form.keys is read from null
useFieldNoGuard(ctx, path) ==
  /\ obs' = [Quiet("useField", <<ctx, path>>) EXCEPT
               !.ret = IF ctx = "null" THEN Error("TypeError") ELSE Field(path)]
  /\ UNCHANGED <<values, valuesRef, changes, errors, touched, keys, formKey,
                 isSubmitting, initialValuesCopy, inflight>>
  /\ UNCHANGED props

\* useField(path) in a component whose context is ctx: throws before any
\* hook when there is no form, and subscribes to keys and errors at the
\* path otherwise; it reads the form and writes nothing
useField(ctx, path) ==
  /\ obs' = [Quiet("useField", <<ctx, path>>) EXCEPT
               !.ret = IF ctx = "null"
                       THEN Error("useField must be used within a WatcherFormContext")
                       ELSE Field(path)]
  /\ UNCHANGED <<values, valuesRef, changes, errors, touched, keys, formKey,
                 isSubmitting, initialValuesCopy, inflight>>
  /\ UNCHANGED props

\* the value a pending promise stands for in obs.ret
Pending == [k |-> "pending"]
\* the value a rejected promise stands for in obs.ret
Thrown == [k |-> "throw"]

\* a submit guard without the isSubmitting test
submitGuardNoFlag == ~onSubmit

\* a submit guard without the onSubmit test
submitGuardNoHandler == isSubmitting

\* submit's early returns: already submitting, or no handler
submitGuard == isSubmitting \/ ~onSubmit

\* a submit that hands the values tree over twice
submitArgsValuesTwice == <<values, values>>

\* what submit hands to the handler
submitArgs == <<values, changes>>

\* submit(), up to its await: the guards, validateAll, the snapshot, the
\* flag and the call of the handler
submit ==
  IF submitGuard
  THEN /\ obs' = Quiet("submit", <<>>)
       /\ UNCHANGED <<values, valuesRef, changes, errors, touched, keys,
                      formKey, isSubmitting, initialValuesCopy, inflight>>
       /\ UNCHANGED props
  ELSE LET result == validateAllResult(submitValidator, values)
       IN  /\ errors' = validateAllErrors(submitValidator, values, errors)
           /\ IF result.hasErrors
              THEN /\ obs' = [Quiet("submit", <<>>) EXCEPT
                                !.validatorCalls = Calls(submitValidator),
                                !.onValidationErrorsArgs =
                                   IF onValidationErrors
                                   THEN <<result.errors>> ELSE <<>>,
                                !.seen = Seen(validateAllSeen(submitValidator))]
                   /\ UNCHANGED <<isSubmitting, inflight>>
              ELSE /\ isSubmitting' = TRUE
                   /\ inflight' = inflight + 1
                   /\ obs' = [Quiet("submit", <<>>) EXCEPT
                                !.validatorCalls = Calls(submitValidator),
                                !.onSubmitArgs = <<submitArgs>>,
                                !.ret = Pending,
                                !.seen = Seen(validateAllSeen(submitValidator))]
           /\ UNCHANGED <<values, valuesRef, changes, touched, keys, formKey,
                          initialValuesCopy>>
           /\ UNCHANGED props

\* a submit that leaves the flag set when the handler has resolved
submitResolvedKeepsFlag(response) ==
  /\ inflight > 0
  /\ inflight' = inflight - 1
  /\ obs' = [Quiet("submitResolved", <<response>>) EXCEPT !.ret = response]
  /\ UNCHANGED <<values, valuesRef, changes, errors, touched, keys, formKey,
                 isSubmitting, initialValuesCopy>>
  /\ UNCHANGED props

\* a submit that marks the form clean when the handler has resolved
submitResolvedClean(response) ==
  /\ inflight > 0
  /\ inflight' = inflight - 1
  /\ isSubmitting' = FALSE
  /\ changes' = EmptyObj
  /\ obs' = [Quiet("submitResolved", <<response>>) EXCEPT !.ret = response]
  /\ UNCHANGED <<values, valuesRef, errors, touched, keys, formKey,
                 initialValuesCopy>>
  /\ UNCHANGED props

\* the handler resolves with response and submit runs on from its await
submitResolved(response) ==
  /\ inflight > 0
  /\ inflight' = inflight - 1
  /\ isSubmitting' = FALSE
  /\ obs' = [Quiet("submitResolved", <<response>>) EXCEPT !.ret = response]
  /\ UNCHANGED <<values, valuesRef, changes, errors, touched, keys, formKey,
                 initialValuesCopy>>
  /\ UNCHANGED props

\* a submit that clears the flag in a finally block
submitRejectedFinally ==
  /\ inflight > 0
  /\ inflight' = inflight - 1
  /\ isSubmitting' = FALSE
  /\ obs' = [Quiet("submitRejected", <<>>) EXCEPT !.ret = Thrown]
  /\ UNCHANGED <<values, valuesRef, changes, errors, touched, keys, formKey,
                 initialValuesCopy>>
  /\ UNCHANGED props

\* the handler throws or rejects: the await throws out of submit
submitRejected ==
  /\ inflight > 0
  /\ inflight' = inflight - 1
  /\ obs' = [Quiet("submitRejected", <<>>) EXCEPT !.ret = Thrown]
  /\ UNCHANGED <<values, valuesRef, changes, errors, touched, keys, formKey,
                 isSubmitting, initialValuesCopy>>
  /\ UNCHANGED props

\* a cleanliness test that looks at touched instead of changes
isCleanByTouched == Cardinality(ObjectKeys(touched)) = 0

\* the effect's test that the form has no pending edits
isClean == Cardinality(ObjectKeys(changes)) = 0

\* an effect that treats 'Always' like 'OnlyIfClean'
effectResetsCleanOnly(o) ==
  /\ o # valuesRef
  /\ resetOnInitialValuesChange \in {"Always", "OnlyIfClean"}
  /\ isClean

\* an effect that resets whatever the policy is
effectResetsAnyPolicy(o) ==
  /\ o # valuesRef
  /\ \/ resetOnInitialValuesChange \in {"No", "Always"}
     \/ resetOnInitialValuesChange = "OnlyIfClean" /\ isClean

\* the effect resets the form to the initialValues object o
effectResets(o) ==
  /\ o # valuesRef
  /\ \/ resetOnInitialValuesChange = "Always"
     \/ resetOnInitialValuesChange = "OnlyIfClean" /\ isClean

\* an effect that stores the new initialValues as the baseline also when it
\* does not reset
initialValuesChangeStoresBaseline(o) ==
  /\ o # initialValues
  /\ initialValues' = o
  /\ IF effectResets(o)
     THEN /\ formKey < MaxFormKey
          /\ resetBody(o, TRUE)
     ELSE /\ initialValuesCopy' = o
          /\ UNCHANGED <<values, valuesRef, changes, errors, touched,
                         formKey>>
  /\ obs' = [Quiet("initialValuesChange", <<o>>) EXCEPT
               !.ret = Bool(effectResets(o)),
               !.seen = Seen(IF effectResets(o) THEN resetSeen(o) ELSE <<>>)]
  /\ UNCHANGED <<keys, isSubmitting, inflight>>
  /\ UNCHANGED <<validator, validator0, submitValidator, onSubmit,
                 onValidationErrors, resetOnInitialValuesChange, watching>>

\* a render with another initialValues object, and the effect that follows;
\* obs.ret records whether the effect called reset
initialValuesChange(o) ==
  /\ o # initialValues
  /\ initialValues' = o
  /\ IF effectResets(o)
     THEN /\ formKey < MaxFormKey
          /\ resetBody(o, TRUE)
     ELSE UNCHANGED <<values, valuesRef, changes, errors, touched, formKey,
                      initialValuesCopy>>
  /\ obs' = [Quiet("initialValuesChange", <<o>>) EXCEPT
               !.ret = Bool(effectResets(o)),
               !.seen = Seen(IF effectResets(o) THEN resetSeen(o) ELSE <<>>)]
  /\ UNCHANGED <<keys, isSubmitting, inflight>>
  /\ UNCHANGED <<validator, validator0, submitValidator, onSubmit,
                 onValidationErrors, resetOnInitialValuesChange, watching>>

\* a render with another validator (validateAll and validateField are made
\* anew) or another onSubmit (submit is made anew and keeps the validateAll
\* of this render); newHandler: the handler is another function than before
render(v, h, newHandler) ==
  /\ v # validator \/ h # onSubmit \/ newHandler
  /\ newHandler => h
  /\ validator' = v
  /\ onSubmit' = h
  /\ submitValidator' = IF h # onSubmit \/ newHandler THEN v ELSE submitValidator
  /\ obs' = Quiet("render", <<v, h, newHandler>>)
  /\ UNCHANGED <<values, valuesRef, changes, errors, touched, keys, formKey,
                 isSubmitting, initialValuesCopy, inflight>>
  /\ UNCHANGED <<initialValues, validator0, onValidationErrors,
                 resetOnInitialValuesChange, watching>>

\* components subscribe to the containers (useState, usePath) with callbacks
\* that record what they are notified of
watch ==
  /\ ~watching
  /\ watching' = TRUE
  /\ obs' = Quiet("watch", <<>>)
  /\ UNCHANGED <<values, valuesRef, changes, errors, touched, keys, formKey,
                 isSubmitting, initialValuesCopy, inflight>>
  /\ UNCHANGED <<initialValues, validator, validator0, submitValidator,
                 onSubmit, onValidationErrors, resetOnInitialValuesChange>>

(***************************************************************************)
(* Specifications.  The form's state is a product of containers that the   *)
(* operations write independently, so each specification drives the form   *)
(* with the callers of one scenario: Spec edits and validates fields under *)
(* fixed props, SpecReset resets the form and changes initialValues,       *)
(* SpecSubmit submits it and re-renders it with other props.               *)
(***************************************************************************)

\* the step leaves every render key within the bound: render keys count
\* without limit, so each specification stops them at MaxKey, or at
\* MaxEditKey where the keys are what is studied
KeysWithin(bound) == \A p \in Paths : KeyAt(keys', p) <= bound

\* the argument lists setFieldValues is called with
Pairs == {<<p, v>> : p \in Paths, v \in Vals}
PairSeqs == UNION {[1..n -> Pairs] : n \in 0..MaxPairs}

\* Spec: a form without submit handler whose props never change and whose
\* baseline stays the initialValues of the mount
Init ==
  /\ Mount
  /\ ~onSubmit
  /\ ~onValidationErrors
  /\ resetOnInitialValuesChange = "No"

Next ==
  \/ \E p \in Paths, v \in Vals, sv \in BOOLEAN, sk \in BOOLEAN :
       setFieldValue(p, v, sv, sk) /\ KeysWithin(MaxKey)
  \/ \E ps \in PairSeqs : setFieldValues(ps) /\ KeysWithin(MaxKey)
  \/ \E p \in Paths : validateField(p)
  \/ validateAll
  \/ \E p \in Paths : incrementKey(p) /\ KeysWithin(MaxKey)
  \/ reset("none", FALSE)
  \/ \E p \in Paths, v \in Vals : onChange(p, v)
  \/ \E p \in Paths, v \in Vals : onChange(p, Event(v))
  \/ \E p \in Paths : onFocus(p)
  \/ \E p \in Paths : onBlur(p)

Spec == Init /\ [][Next]_vars

\* SpecReset: a validated form that is edited, validated, focused, reset,
\* and re-rendered with other initialValues objects
InitReset ==
  /\ Mount
  /\ validator = "required"
  /\ ~onSubmit
  /\ ~onValidationErrors

NextReset ==
  \/ \E p \in Paths, v \in Vals, sk \in BOOLEAN :
       setFieldValue(p, v, FALSE, sk) /\ KeysWithin(MaxKey)
  \/ \E p \in Paths, v \in Vals :
       setFieldValues(<<<<p, v>>>>) /\ KeysWithin(MaxKey)
  \/ \E p \in Paths : validateField(p)
  \/ validateAll
  \/ \E p \in Paths : onFocus(p)
  \/ \E p \in Paths : incrementKey(p) /\ KeysWithin(MaxKey)
  \/ \E n \in Objs \cup {"none"}, f \in BOOLEAN : reset(n, f)
  \/ \E o \in Objs : initialValuesChange(o)

SpecReset == InitReset /\ [][NextReset]_vars

\* SpecSubmit: a form that is edited, validated, reset and submitted while
\* its validator and onSubmit props change between renders
InitSubmit ==
  /\ Mount
  /\ initialValues = "A"
  /\ validator = "required"
  /\ resetOnInitialValuesChange = "No"

NextSubmit ==
  \/ submit
  \/ \E r \in Results : submitResolved(r)
  \/ submitRejected
  \/ \E v \in Validators, h \in BOOLEAN, n \in BOOLEAN : render(v, h, n)
  \/ \E p \in Paths, v \in Vals, sv \in BOOLEAN, sk \in BOOLEAN :
       setFieldValue(p, v, sv, sk) /\ KeysWithin(MaxKey)
  \/ \E p \in Paths, v \in Vals :
       setFieldValues(<<<<p, v>>>>) /\ KeysWithin(MaxKey)
  \/ \E p \in Paths : validateField(p)
  \/ validateAll
  \/ reset("none", FALSE)

SpecSubmit == InitSubmit /\ [][NextSubmit]_vars

\* SpecValidate: a form whose fields are written without validation and
\* then validated, one field or all, while it is re-rendered with validators
\* of every result shape
InitValidate ==
  /\ Mount
  /\ ~onSubmit
  /\ ~onValidationErrors
  /\ resetOnInitialValuesChange = "No"

NextValidate ==
  \/ \E v \in AllValidators : render(v, FALSE, FALSE)
  \/ \E p \in DeepPaths, v \in Vals : setFieldValue(p, v, TRUE, TRUE)
  \/ \E p \in DeepPaths : validateField(p)
  \/ validateAll

SpecValidate == InitValidate /\ [][NextValidate]_vars

\* SpecKeys: a form whose fields are written one at a time with every
\* combination of options, and several at a time, and whose render keys are
\* followed up to MaxEditKey
InitKeys ==
  /\ Mount
  /\ ~onSubmit
  /\ ~onValidationErrors
  /\ resetOnInitialValuesChange = "No"

NextKeys ==
  \/ \E p \in Paths, v \in Vals, opts \in SUBSET Options :
       setFieldValueOpts(p, v, opts) /\ KeysWithin(MaxEditKey)
  \/ \E ps \in PairSeqs : setFieldValues(ps) /\ KeysWithin(MaxEditKey)
  \/ \E p \in Paths : incrementKey(p) /\ KeysWithin(MaxEditKey)
  \/ \E p \in Paths : validateField(p)

SpecKeys == InitKeys /\ [][NextKeys]_vars

\* SpecObserve: a form with subscribers attached to its containers, whose
\* fields are written one at a time, several at a time and by typing, and
\* which is validated and reset
InitObserve ==
  /\ Mount
  /\ initialValues = "B"
  /\ ~onSubmit
  /\ ~onValidationErrors
  /\ resetOnInitialValuesChange = "No"

NextObserve ==
  \/ watch
  \/ \E p \in Paths, v \in Vals, opts \in SUBSET Options :
       setFieldValueOpts(p, v, opts) /\ KeysWithin(MaxKey)
  \/ \E ps \in PairSeqs : setFieldValues(ps) /\ KeysWithin(MaxKey)
  \/ \E p \in Paths, v \in Vals : onChange(p, v)
  \/ \E p \in Paths : validateField(p)
  \/ reset("none", FALSE)

SpecObserve == InitObserve /\ [][NextObserve]_vars

\* SpecCross: a form whose validator has a rule across two fields, written
\* without validation and then validated one field or all
InitCross ==
  /\ Mount
  /\ validator = "required"
  /\ ~onSubmit
  /\ ~onValidationErrors
  /\ resetOnInitialValuesChange = "No"

NextCross ==
  \/ \E v \in CrossValidators : render(v, FALSE, FALSE)
  \/ \E p \in Paths, v \in Vals : setFieldValue(p, v, TRUE, TRUE)
  \/ \E p \in Paths : validateField(p)
  \/ validateAll

SpecCross == InitCross /\ [][NextCross]_vars

\* the arguments a field's onChange is called with: primitives, null,
\* undefined, an object without target, events, and objects whose target has
\* no value or is null
FieldInputs ==
  {Undefined, Null, Num(0), Str(""), Str("x"), Obj([value |-> Str("x")]),
   Event(Str("")), Event(Str("x")), Obj([target |-> EmptyObj]),
   Obj([target |-> Null])}

\* SpecField: the fields of a form, bound with useField inside and outside
\* a provider, and their handlers
InitField ==
  /\ Mount
  /\ initialValues = "B"
  /\ ~onSubmit
  /\ ~onValidationErrors
  /\ resetOnInitialValuesChange = "No"

NextField ==
  \/ watch
  \/ \E ctx \in Contexts, p \in Paths : useField(ctx, p)
  \/ \E p \in Paths, e \in FieldInputs : onChange(p, e)
  \/ \E p \in Paths : onFocus(p)
  \/ \E p \in Paths : onBlur(p)

SpecField == InitField /\ [][NextField]_vars

(***************************************************************************)
(* Properties.                                                             *)
(***************************************************************************)

\* C1: after setFieldValue(p, v) without options, values at p and changes at
\* p equal v, for top-level and nested paths, and every other top-level key
\* of values keeps its previous value.
C1_SetFieldValueWrites ==
  [][\A p \in Paths, v \in Vals :
       (obs'.op = "setFieldValue" /\ setFieldValue(p, v, FALSE, FALSE)) =>
         /\ getPath(values', p) = v
         /\ getPath(changes', p) = v
         /\ \A key \in ObjectKeys(values) \ {Head(p)} :
              /\ key \in ObjectKeys(values')
              /\ values'.f[key] = values.f[key]]_vars

\* a nested setFieldValue without options has just written '' over 'x'
\* beside an untouched top-level key
C1_Witness ==
  /\ obs.op = "setFieldValue"
  /\ obs.args = <<<<"address", "street">>, Str(""), FALSE, FALSE>>
  /\ initialValuesCopy = "B"
  /\ getPath(values, <<"address", "street">>) = Str("")
  /\ getPath(changes, <<"address", "street">>) = Str("")
  /\ getPath(values, <<"name">>) = Str("x")

\* C2: a submit() called while a handler is pending is a no-op: it returns
\* undefined, runs no validation and does not call onSubmit; and at most one
\* onSubmit invocation is ever in flight.
C2_SecondSubmitNoOp ==
  /\ [](inflight <= 1)
  /\ [][inflight > 0 /\ submit =>
          /\ obs' = Quiet("submit", <<>>)
          /\ UNCHANGED <<values, changes, errors, isSubmitting, inflight>>]_vars

\* a second submit() has just returned while the first handler is pending,
\* on a form whose validator would have been run
C2_Witness ==
  /\ obs = Quiet("submit", <<>>)
  /\ onSubmit
  /\ submitValidator = "required"
  /\ isSubmitting
  /\ inflight = 1

\* C3: a submit() that gets past its guards and whose validateAll reports
\* hasErrors does not call onSubmit, calls onValidationErrors (when one is
\* configured) exactly once with the validator's result, leaves isSubmitting
\* false and leaves the validator's result in errors.
C3_SubmitAbortsOnErrors ==
  [][(/\ submit
      /\ ~isSubmitting
      /\ onSubmit
      /\ validateAllResult(submitValidator, values).hasErrors) =>
        /\ obs'.onSubmitArgs = <<>>
        /\ inflight' = inflight
        /\ obs'.onValidationErrorsArgs =
             IF onValidationErrors
             THEN <<validatorResult(submitValidator, values)>> ELSE <<>>
        /\ ~isSubmitting'
        /\ errors' = validatorResult(submitValidator, values)]_vars

\* a submit() has just been aborted by validation errors and has reported
\* them, over errors that an earlier validation had left different
C3_Witness ==
  /\ obs.op = "submit"
  /\ Len(obs.onValidationErrorsArgs) = 1
  /\ obs.onValidationErrorsArgs[1] = errors
  /\ hasErrors(errors)
  /\ ObjectKeys(changes) # {}
  /\ ~isSubmitting
  /\ inflight = 0

\* C4: for a submit() that passes validation, isSubmitting is false before
\* the call, true from the call of the handler until the handler resolves and
\* false after; the handler is given the values and the changes of the
\* moment of the call; submit() resolves to what the handler resolved to.
C4_SubmitLifecycle ==
  /\ [](inflight > 0 => isSubmitting)
  /\ [][/\ (submit /\ obs'.onSubmitArgs # <<>>) =>
             /\ ~isSubmitting
             /\ isSubmitting'
             /\ obs'.onSubmitArgs = <<<<values, changes>>>>
        /\ (inflight > 0 /\ ~(\E r \in Results : submitResolved(r))) =>
             isSubmitting'
        /\ \A r \in Results : submitResolved(r) =>
             /\ ~isSubmitting'
             /\ obs'.ret = r]_vars

\* the handler has just been called with the edited values and the changes
C4_Witness ==
  /\ obs.op = "submit"
  /\ obs.onSubmitArgs = <<<<values, changes>>>>
  /\ getPath(changes, <<"address", "street">>) = Str("x")
  /\ values # changes
  /\ isSubmitting
  /\ inflight = 1

\* C5: when the handler rejects, the failure reaches the caller of submit()
\* and isSubmitting stays true; while the flag is set and no handler
\* resolves, no operation clears it and no submit() calls onSubmit; once the
\* handler has rejected the form stays in that state.
C5_RejectionLeavesFlagSet ==
  [][/\ submitRejected => obs'.ret = Thrown /\ isSubmitting'
     /\ (isSubmitting /\ ~(\E r \in Results : submitResolved(r))) =>
          /\ isSubmitting'
          /\ obs'.onSubmitArgs = <<>>
     /\ (isSubmitting /\ inflight = 0) => inflight' = 0]_vars

\* a submit() has just returned without calling the handler, after the
\* handler of an earlier submit rejected
C5_Witness ==
  /\ obs = Quiet("submit", <<>>)
  /\ onSubmit
  /\ isSubmitting
  /\ inflight = 0

\* C6: submit() without an onSubmit handler is a no-op: it returns undefined,
\* calls neither the validator nor onValidationErrors, and leaves errors,
\* isSubmitting, values and changes as they were.
C6_SubmitWithoutHandler ==
  [][(submit /\ ~onSubmit) =>
       /\ obs' = Quiet("submit", <<>>)
       /\ UNCHANGED <<errors, isSubmitting, values, changes, inflight>>]_vars

\* a submit() has just returned on a form without handler whose validator
\* would have reported errors that errors does not hold
C6_Witness ==
  /\ obs = Quiet("submit", <<>>)
  /\ ~onSubmit
  /\ ~isSubmitting
  /\ onValidationErrors
  /\ validateAllResult(submitValidator, values).hasErrors
  /\ errors = EmptyObj

\* C7: the baseline is the initialValues of the mount until a reset that
\* supplies newValues replaces it with them; reset() without arguments sets
\* values to the baseline and empties changes, errors and touched.
C7_ResetRestoresBaseline ==
  /\ initialValuesCopy = initialValues
  /\ [][/\ reset("none", FALSE) =>
             /\ values' = Content(initialValuesCopy)
             /\ changes' = EmptyObj
             /\ errors' = EmptyObj
             /\ touched' = EmptyObj
        /\ initialValuesCopy' # initialValuesCopy =>
             \/ \E f \in BOOLEAN : reset(initialValuesCopy', f)
             \/ initialValuesChange(initialValuesCopy')
                  /\ effectResets(initialValuesCopy')]_vars

\* reset() has just restored the baseline of an earlier reset({newValues})
\* although the initialValues prop is another object
C7_Witness ==
  /\ obs.op = "reset"
  /\ obs.args = <<"none", FALSE>>
  /\ resetOnInitialValuesChange = "OnlyIfClean"
  /\ initialValuesCopy = "B"
  /\ initialValues = "A"
  /\ values = Content("B")
  /\ changes = EmptyObj
  /\ errors = EmptyObj
  /\ touched = EmptyObj

\* C8: reset({newValues: N}) sets values to N, not to a merge with the
\* previous tree, empties changes and makes N the baseline; edits leave the
\* baseline alone, so a later reset() restores N.
C8_ResetWithNewValues ==
  [][/\ \A n \in Objs, f \in BOOLEAN : reset(n, f) =>
          /\ values' = Content(n)
          /\ changes' = EmptyObj
          /\ initialValuesCopy' = n
     /\ obs'.op \in {"setFieldValue", "setFieldValues"} =>
          initialValuesCopy' = initialValuesCopy
     /\ \A f \in BOOLEAN : reset("none", f) =>
          /\ values' = Content(initialValuesCopy)
          /\ initialValuesCopy' = initialValuesCopy]_vars

\* reset({newValues: A}) has just replaced a tree that had an address by A,
\* which has none, on a form mounted with B
C8_Witness ==
  /\ obs.op = "reset"
  /\ obs.args = <<"A", FALSE>>
  /\ resetOnInitialValuesChange = "No"
  /\ initialValues = "B"
  /\ initialValuesCopy = "A"
  /\ values = Content("A")
  /\ "address" \notin ObjectKeys(values)
  /\ changes = EmptyObj

\* C9: a reset with forceRender raises formKey by exactly 1, a reset without
\* it leaves formKey alone, and formKey changes in no step but a reset with
\* forceRender (the caller's, or the one the initialValues effect makes).
C9_FormKey ==
  [][/\ \A n \in Objs \cup {"none"} : reset(n, TRUE) => formKey' = formKey + 1
     /\ \A n \in Objs \cup {"none"} : reset(n, FALSE) => formKey' = formKey
     /\ formKey' # formKey =>
          /\ formKey' = formKey + 1
          /\ \/ \E n \in Objs \cup {"none"} : reset(n, TRUE)
             \/ \E o \in Objs : initialValuesChange(o) /\ effectResets(o)]_vars

\* a second reset with forceRender has just raised formKey from 1 to 2
C9_Witness ==
  /\ obs.op = "reset"
  /\ obs.args = <<"none", TRUE>>
  /\ formKey = 2

\* C10: under 'OnlyIfClean', a change of the initialValues object while
\* changes is non-empty leaves values, changes, errors, touched, formKey and
\* the baseline as they were.
C10_OnlyIfCleanDirty ==
  [][\A o \in Objs :
       (/\ initialValuesChange(o)
        /\ resetOnInitialValuesChange = "OnlyIfClean"
        /\ ObjectKeys(changes) # {}) =>
          UNCHANGED <<values, changes, errors, touched, formKey,
                      initialValuesCopy>>]_vars

\* the initialValues object has just changed under 'OnlyIfClean' on a form
\* with an edit, an error and a touched field, which are all still there
C10_Witness ==
  /\ obs.op = "initialValuesChange"
  /\ resetOnInitialValuesChange = "OnlyIfClean"
  /\ initialValues # initialValuesCopy
  /\ ObjectKeys(changes) # {}
  /\ ObjectKeys(errors) # {}
  /\ ObjectKeys(touched) = {"name"}
  /\ values # Content(initialValuesCopy)

\* C11 as stated: under 'OnlyIfClean', whenever the initialValues object
\* changes while changes is empty, values becomes the new initialValues, the
\* baseline becomes the new initialValues, errors and touched are emptied and
\* formKey increases by 1.
C11_Original ==
  [][\A o \in Objs :
       (/\ initialValuesChange(o)
        /\ resetOnInitialValuesChange = "OnlyIfClean"
        /\ ObjectKeys(changes) = {}) =>
          /\ values' = Content(o)
          /\ initialValuesCopy' = o
          /\ errors' = EmptyObj
          /\ touched' = EmptyObj
          /\ formKey' = formKey + 1]_vars

\* C11: under 'OnlyIfClean', when the initialValues object changes while
\* changes is empty, to an object other than the one the values container
\* holds, values and the baseline become the new initialValues, errors and
\* touched are emptied and formKey increases by 1; when it changes to the
\* very object values holds, nothing is reset.
C11_OnlyIfCleanResets ==
  [][\A o \in Objs :
       (/\ initialValuesChange(o)
        /\ resetOnInitialValuesChange = "OnlyIfClean"
        /\ ObjectKeys(changes) = {}) =>
          IF o # valuesRef
          THEN /\ values' = Content(o)
               /\ initialValuesCopy' = o
               /\ errors' = EmptyObj
               /\ touched' = EmptyObj
               /\ formKey' = formKey + 1
          ELSE UNCHANGED <<values, changes, errors, touched, formKey,
                           initialValuesCopy>>]_vars

\* the effect has just reset a clean form to the new initialValues object B
\* under 'OnlyIfClean', raising formKey to 2
C11_Witness ==
  /\ obs.op = "initialValuesChange"
  /\ obs.args = <<"B">>
  /\ obs.ret = Bool(TRUE)
  /\ resetOnInitialValuesChange = "OnlyIfClean"
  /\ values = Content("B")
  /\ initialValuesCopy = "B"
  /\ errors = EmptyObj
  /\ touched = EmptyObj
  /\ formKey = 2

\* C12 as stated: under 'Always', whenever the initialValues object changes,
\* values becomes the new initialValues, changes is emptied and formKey
\* increases by 1.
C12_Original ==
  [][\A o \in Objs :
       (initialValuesChange(o) /\ resetOnInitialValuesChange = "Always") =>
          /\ values' = Content(o)
          /\ changes' = EmptyObj
          /\ formKey' = formKey + 1]_vars

\* C12: under 'Always', when the initialValues object changes to an object
\* other than the one the values container holds, the form is reset whatever
\* its pending edits: values becomes the new initialValues, changes is
\* emptied and formKey increases by 1; when it changes to the very object
\* values holds, nothing is reset.
C12_AlwaysResets ==
  [][\A o \in Objs :
       (initialValuesChange(o) /\ resetOnInitialValuesChange = "Always") =>
          IF o # valuesRef
          THEN /\ values' = Content(o)
               /\ changes' = EmptyObj
               /\ formKey' = formKey + 1
          ELSE UNCHANGED <<values, changes, errors, touched, formKey,
                           initialValuesCopy>>]_vars

\* the effect has just reset the form to A under 'Always', raising formKey
\* to 2, on a form whose name field has a render key
C12_Witness ==
  /\ obs.op = "initialValuesChange"
  /\ obs.args = <<"A">>
  /\ obs.ret = Bool(TRUE)
  /\ resetOnInitialValuesChange = "Always"
  /\ values = Content("A")
  /\ changes = EmptyObj
  /\ KeyAt(keys, <<"name">>) = 1
  /\ formKey = 2

\* C13: under 'No', a change of the initialValues object leaves values,
\* changes, errors, touched and formKey as they were, with or without
\* pending edits.
C13_NoPolicyNoReset ==
  [][\A o \in Objs :
       (initialValuesChange(o) /\ resetOnInitialValuesChange = "No") =>
          UNCHANGED <<values, changes, errors, touched, formKey>>]_vars

\* the initialValues object has just changed under 'No' on a form with an
\* edit, an error and a touched field, which are all still there
C13_Witness ==
  /\ obs.op = "initialValuesChange"
  /\ obs.ret = Bool(FALSE)
  /\ resetOnInitialValuesChange = "No"
  /\ initialValues # initialValuesCopy
  /\ initialValues # valuesRef
  /\ ObjectKeys(changes) # {}
  /\ ObjectKeys(errors) # {}
  /\ ObjectKeys(touched) # {}

\* C14: validateField(p) runs the validator on the current values and
\* returns its result at the path p, walked segment by segment; when that
\* value is truthy errors at p equals it afterwards, otherwise errors has
\* nothing at p afterwards; for paths of one, two and three segments.
C14_ValidateField ==
  [][\A p \in DeepPaths :
       (obs'.op = "validateField" /\ validateField(p)) =>
         LET result == getDeepPath(validatorResult(validator, values), p)
             parent == getDeepPath(errors', SubSeq(p, 1, Len(p) - 1))
         IN  /\ obs'.validatorCalls = IF validator = "none" THEN 0 ELSE 1
             /\ obs'.ret = result
             /\ IF result.k \in {"s", "o"} /\ result # Str("")
                THEN getPath(errors', p) = result
                ELSE ~IsObj(parent) \/ p[Len(p)] \notin DOMAIN parent.f]_vars

\* validateField('address.geo.lat') has just returned the error the
\* validator reports three segments deep and stored it beside the error
\* another validation had left at address.street
C14_Witness ==
  /\ obs.op = "validateField"
  /\ obs.args = <<<<"address", "geo", "lat">>>>
  /\ obs.ret = Str("required")
  /\ getPath(errors, <<"address", "geo", "lat">>) = Str("required")
  /\ getPath(errors, <<"address", "street">>) = Str("required")

\* C15: validateAll() with a validator returns the validator's result as
\* errors, and hasErrors=true exactly when some top-level key of the result
\* holds a truthy value; keys holding null or undefined do not count.
C15_ValidateAllHasErrors ==
  [][(validateAll /\ validator # "none") =>
       LET r == validatorResult(validator, values)
       IN  /\ obs'.ret.errors = r
           /\ obs'.ret.hasErrors =
                (\E key \in ObjectKeys(r) :
                   r.f[key].k \in {"s", "o"} /\ r.f[key] # Str(""))
           /\ (\A key \in ObjectKeys(r) : r.f[key] \in {Undefined, Null}) =>
                ~obs'.ret.hasErrors]_vars

\* validateAll() has just returned hasErrors=false for a result whose keys
\* are present and hold null and undefined
C15_Witness ==
  /\ obs.op = "validateAll"
  /\ validator = "nullable"
  /\ obs.ret.hasErrors = FALSE
  /\ obs.ret.errors = Obj([name |-> Null, address |-> Undefined])
  /\ ObjectKeys(obs.ret.errors) = {"name", "address"}

\* C16: validateAll() without a validator returns hasErrors=false and no
\* errors, and leaves the errors container as it was.
C16_ValidateAllNoValidator ==
  [][(validateAll /\ validator = "none") =>
       /\ obs'.ret = [hasErrors |-> FALSE, errors |-> Undefined]
       /\ obs'.validatorCalls = 0
       /\ errors' = errors]_vars

\* validateAll() has just returned on a form without validator whose errors
\* container still holds the error an earlier validation stored
C16_Witness ==
  /\ obs.op = "validateAll"
  /\ validator = "none"
  /\ obs.ret = [hasErrors |-> FALSE, errors |-> Undefined]
  /\ getPath(errors, <<"name">>) = Str("required")

\* C17: setFieldValue(p, v) validates the path p unless skipValidation is
\* given: the validator is called once and errors at p holds its result for
\* the written values when that is truthy and nothing otherwise; with
\* skipValidation the validator is not called and errors is unchanged.
C17_SetFieldValueValidates ==
  [][\A p \in Paths, v \in Vals, opts \in SUBSET Options :
       (/\ obs'.op = "setFieldValue"
        /\ obs'.args = <<p, v, opts>>
        /\ setFieldValueOpts(p, v, opts)) =>
         IF "skipValidation" \in opts
         THEN obs'.validatorCalls = 0 /\ errors' = errors
         ELSE LET result == getDeepPath(validatorResult(validator, values'), p)
                  parent == getDeepPath(errors', SubSeq(p, 1, Len(p) - 1))
              IN  /\ obs'.validatorCalls = IF validator = "none" THEN 0 ELSE 1
                  /\ IF result.k \in {"s", "o"} /\ result # Str("")
                     THEN getPath(errors', p) = result
                     ELSE ~IsObj(parent) \/ p[Len(p)] \notin DOMAIN parent.f]_vars

\* a setFieldValue with skipValidation has just written an empty name and
\* the validator, which rejects it, has left no error
C17_Witness ==
  /\ obs.op = "setFieldValue"
  /\ obs.args = <<<<"name">>, Str(""), {"skipValidation"}>>
  /\ obs.validatorCalls = 0
  /\ validator = "required"
  /\ getPath(values, <<"name">>) = Str("")
  /\ getPath(errors, <<"name">>) = Undefined
  /\ getPath(errors, <<"address", "street">>) = Str("required")

\* C18: setFieldValue(p, v) raises the render key at p by exactly 1, from
\* absent to 1 on first use, and leaves the keys of the other paths alone;
\* with skipIncrementKey the keys container is unchanged.
C18_SetFieldValueKey ==
  [][\A p \in Paths, v \in Vals, opts \in SUBSET Options :
       (/\ obs'.op = "setFieldValue"
        /\ obs'.args = <<p, v, opts>>
        /\ setFieldValueOpts(p, v, opts)) =>
         IF "skipIncrementKey" \in opts
         THEN keys' = keys
         ELSE /\ getPath(keys', p) =
                   IF getPath(keys, p) = Undefined THEN Num(1)
                   ELSE Num(getPath(keys, p).v + 1)
              /\ \A q \in Paths \ {p} : getPath(keys', q) = getPath(keys, q)]_vars

\* a setFieldValue without options has just raised the key of
\* address.street from 1 to 2 beside the key of name
C18_Witness ==
  /\ obs.op = "setFieldValue"
  /\ obs.args = <<<<"address", "street">>, Str("x"), {}>>
  /\ getPath(keys, <<"address", "street">>) = Num(2)
  /\ getPath(keys, <<"name">>) = Num(1)

\* C19: setFieldValue called with the skipChanges option writes the value
\* into values at the path and leaves the changes container unchanged.
C19_SkipChanges ==
  [][\A p \in Paths, v \in Vals, opts \in SUBSET Options :
       (/\ obs'.op = "setFieldValue"
        /\ obs'.args = <<p, v, opts>>
        /\ setFieldValueOpts(p, v, opts)
        /\ "skipChanges" \in opts) =>
          /\ getPath(values', p) = v
          /\ changes' = changes]_vars

\* C20: setFieldValues(pairs) leaves at every listed path, in values and in
\* changes, the value of the last pair that lists it, and raises its render
\* key by the number of pairs that list it; the paths not listed keep their
\* values and their keys.
C20_SetFieldValues ==
  [][\A ps \in PairSeqs :
       (/\ obs'.op = "setFieldValues"
        /\ obs'.args = <<ps>>
        /\ setFieldValues(ps)) =>
         /\ \A p \in Paths :
              LET occ == {i \in 1..Len(ps) : ps[i][1] = p}
                  last == CHOOSE i \in occ : \A j \in occ : j <= i
              IN  /\ KeyAt(keys', p) = KeyAt(keys, p) + Cardinality(occ)
                  /\ IF occ = {}
                     THEN /\ getPath(values', p) = getPath(values, p)
                          /\ getPath(changes', p) = getPath(changes, p)
                          /\ getPath(keys', p) = getPath(keys, p)
                     ELSE /\ getPath(values', p) = ps[last][2]
                          /\ getPath(changes', p) = ps[last][2]
         /\ getPath(values', <<"address", "city">>) =
              getPath(values, <<"address", "city">>)]_vars

\* a setFieldValues that lists name twice and address.street not at all has
\* just left the second value at name, raised its key by 2 and kept the
\* street, its key and the city
C20_Witness ==
  /\ obs.op = "setFieldValues"
  /\ obs.args = <<<< <<<<"name">>, Str("x")>>, <<<<"name">>, Str("")>> >>>>
  /\ getPath(values, <<"name">>) = Str("")
  /\ getPath(changes, <<"name">>) = Str("")
  /\ getPath(keys, <<"name">>) = Num(2)
  /\ getPath(keys, <<"address", "street">>) = Num(1)
  /\ getPath(values, <<"address", "city">>) = Str("x")

\* C21: during a setFieldValues of n >= 1 pairs the subscribers of the whole
\* values container are notified exactly once and those of the whole changes
\* container exactly once, and no notified subscriber reads a values or a
\* changes tree that holds only some of the n writes.
C21_BatchNotifiesOnce ==
  [][\A ps \in PairSeqs :
       (/\ obs'.op = "setFieldValues"
        /\ obs'.args = <<ps>>
        /\ setFieldValues(ps)
        /\ watching
        /\ Len(ps) >= 1) =>
          LET seen == obs'.seen
              of(c) == {i \in 1..Len(seen) : seen[i].c = c}
          IN  /\ Cardinality(of("values")) = 1
              /\ Cardinality(of("changes")) = 1
              /\ \A i \in 1..Len(seen) :
                   /\ seen[i].values \in {values, values'}
                   /\ seen[i].changes \in {changes, changes'}]_vars

\* a setFieldValues of two pairs for two paths has just notified the
\* subscribers of changes once, of values once and of keys twice
C21_Witness ==
  /\ obs.op = "setFieldValues"
  /\ watching
  /\ Len(obs.args[1]) = 2
  /\ obs.args[1][1][1] # obs.args[1][2][1]
  /\ Len(obs.seen) = 4
  /\ obs.seen[1].c = "changes"
  /\ obs.seen[1].paths = {<<"name">>, <<"address", "street">>}
  /\ obs.seen[2].c = "values"
  /\ obs.seen[2].values = values
  /\ obs.seen[1].values # values

\* C22: incrementKey(p) sets the render key at p to 1 when it is absent and
\* to its previous value plus 1 otherwise, for top-level and nested paths,
\* and changes neither the key of another path nor values, changes, errors
\* or touched.
C22_IncrementKey ==
  [][\A p \in Paths :
       (/\ obs'.op = "incrementKey"
        /\ obs'.args = <<p>>
        /\ incrementKey(p)) =>
          /\ getPath(keys', p) =
               IF getPath(keys, p) = Undefined THEN Num(1)
               ELSE Num(getPath(keys, p).v + 1)
          /\ \A q \in Paths \ {p} : getPath(keys', q) = getPath(keys, q)
          /\ UNCHANGED <<values, changes, errors, touched>>]_vars

\* incrementKey('address.street') has just raised the nested key from 1 to
\* 2 beside the key of name, on a form with an edit and an error
C22_Witness ==
  /\ obs.op = "incrementKey"
  /\ obs.args = <<<<"address", "street">>>>
  /\ getPath(keys, <<"address", "street">>) = Num(2)
  /\ getPath(keys, <<"name">>) = Num(1)
  /\ ObjectKeys(changes) # {}
  /\ ObjectKeys(errors) # {}

\* C23: changes is a log of the writes since the last reset: it is empty
\* after the mount and after a reset; a write of v at p (setFieldValue,
\* setFieldValues, a field's onChange) leaves v at p in changes, also when v
\* is the baseline's value, and the other paths of changes as they were; no
\* other operation changes it.
C23_ChangesWriteLog ==
  /\ changes = EmptyObj
  /\ [][LET has(tree, q) ==
              LET parent == getDeepPath(tree, SubSeq(q, 1, Len(q) - 1))
              IN  IsObj(parent) /\ q[Len(q)] \in DOMAIN parent.f
            kept(q) == /\ has(changes', q) = has(changes, q)
                       /\ getPath(changes', q) = getPath(changes, q)
        IN  /\ obs'.op = "reset" => changes' = EmptyObj
            /\ obs'.op \in {"setFieldValue", "onChange"} =>
                 \A q \in Paths :
                   IF q = obs'.args[1]
                   THEN /\ has(changes', q)
                        /\ getPath(changes', q) = newValue(obs'.args[2])
                   ELSE kept(q)
            /\ obs'.op = "setFieldValues" =>
                 \A q \in Paths :
                   LET ps == obs'.args[1]
                       occ == {i \in 1..Len(ps) : ps[i][1] = q}
                       last == CHOOSE i \in occ : \A j \in occ : j <= i
                   IN  IF occ # {}
                       THEN /\ has(changes', q)
                            /\ getPath(changes', q) = ps[last][2]
                       ELSE kept(q)
            /\ obs'.op \notin {"reset", "setFieldValue", "onChange",
                                "setFieldValues"} => changes' = changes]_vars

\* a setFieldValue has just written the baseline's own value back to name,
\* and changes holds it
C23_Witness ==
  /\ obs.op = "setFieldValue"
  /\ obs.args[1] = <<"name">>
  /\ obs.args[2] = getPath(Content(initialValuesCopy), <<"name">>)
  /\ getPath(values, <<"name">>) = getPath(Content(initialValuesCopy), <<"name">>)
  /\ getPath(changes, <<"name">>) = obs.args[2]
  /\ getPath(changes, <<"address", "street">>) = Str("")

\* C24: a field's onChange validates the field only when errors holds a
\* truthy value at its path just before; otherwise it writes values and
\* changes, calls no validator and leaves errors as it was; onBlur always
\* validates the field.
C24_OnChangeValidation ==
  [][/\ \A p \in Paths, e \in Vals \cup {Event(v) : v \in Vals} :
          (/\ obs'.op = "onChange"
           /\ obs'.args = <<p, e>>
           /\ onChange(p, e)) =>
             LET result == getDeepPath(validatorResult(validator, values'), p)
                 parent == getDeepPath(errors', SubSeq(p, 1, Len(p) - 1))
             IN  /\ getPath(values', p) = newValue(e)
                 /\ getPath(changes', p) = newValue(e)
                 /\ IF getPath(errors, p).k \in {"s", "o"}
                    THEN /\ obs'.validatorCalls = 1
                         /\ IF result.k \in {"s", "o"}
                            THEN getPath(errors', p) = result
                            ELSE \/ ~IsObj(parent)
                                 \/ p[Len(p)] \notin DOMAIN parent.f
                    ELSE /\ obs'.validatorCalls = 0
                         /\ errors' = errors
     /\ \A p \in Paths :
          (obs'.op = "onBlur" /\ obs'.args = <<p>> /\ onBlur(p)) =>
             LET result == getDeepPath(validatorResult(validator, values), p)
                 parent == getDeepPath(errors', SubSeq(p, 1, Len(p) - 1))
             IN  /\ obs'.validatorCalls = IF validator = "none" THEN 0 ELSE 1
                 /\ IF result.k \in {"s", "o"}
                    THEN getPath(errors', p) = result
                    ELSE ~IsObj(parent) \/ p[Len(p)] \notin DOMAIN parent.f]_vars

\* an onChange has just written an empty name, which the validator rejects,
\* without calling the validator: the field had no error and has none
C24_Witness ==
  /\ obs.op = "onChange"
  /\ obs.args = <<<<"name">>, Event(Str(""))>>
  /\ obs.validatorCalls = 0
  /\ validator = "required"
  /\ getPath(values, <<"name">>) = Str("")
  /\ getPath(changes, <<"name">>) = Str("")
  /\ getPath(errors, <<"name">>) = Undefined
  /\ getPath(errors, <<"address", "street">>) = Str("required")

\* C27: a field's onFocus sets touched at its path to true, leaves the
\* other paths of touched and values, changes, errors, keys, isSubmitting
\* and formKey as they were, and calls no validator.
C27_OnFocus ==
  [][\A p \in Paths :
       (obs'.op = "onFocus" /\ obs'.args = <<p>> /\ onFocus(p)) =>
          /\ getPath(touched', p) = Bool(TRUE)
          /\ \A q \in Paths \ {p} : getPath(touched', q) = getPath(touched, q)
          /\ obs'.validatorCalls = 0
          /\ UNCHANGED <<values, changes, errors, keys, isSubmitting,
                         formKey>>]_vars

\* an onFocus has just marked address.street as touched on a form whose
\* validator would report the field, whose error errors does not hold
C27_Witness ==
  /\ obs.op = "onFocus"
  /\ obs.args = <<<<"address", "street">>>>
  /\ getPath(touched, <<"address", "street">>) = Bool(TRUE)
  /\ getPath(touched, <<"name">>) = Undefined
  /\ validator = "required"
  /\ getPath(values, <<"address", "street">>) = Str("")
  /\ getPath(errors, <<"address", "street">>) = Undefined

\* C30: the validator that setFieldValue(p, v) calls is given the values
\* with v at p: the error left at p is the one for v, so a field in error is
\* cleared by one setFieldValue with a value the validator accepts.
C30_ValidatorSeesNewValue ==
  [][\A p \in Paths, v \in Vals, opts \in SUBSET Options :
       (/\ obs'.op = "setFieldValue"
        /\ obs'.args = <<p, v, opts>>
        /\ setFieldValueOpts(p, v, opts)
        /\ "skipValidation" \notin opts
        /\ validator = "required") =>
          /\ v = Str("x") => getPath(errors', p) = Undefined
          /\ v = Str("") => getPath(errors', p) = Str("required")]_vars

\* a setFieldValue has just given the empty name of the mounted tree a
\* value the validator accepts, and name has no error
C30_Witness ==
  /\ obs.op = "setFieldValue"
  /\ obs.args = <<<<"name">>, Str("x"), {"skipIncrementKey"}>>
  /\ obs.validatorCalls = 1
  /\ validator = "required"
  /\ initialValuesCopy = "B"
  /\ getPath(errors, <<"name">>) = Undefined
  /\ getPath(errors, <<"address", "street">>) = Str("required")

\* C25: an onChange on the field of path p changes no render key, and
\* changes the error of no path q that is neither a prefix nor an extension
\* of p; none of its notifications is one of keys or errors at a path
\* related to q, which are the subscriptions of the field of q.
C25_OnChangeLeavesOtherFields ==
  [][\A p \in Paths, e \in FieldInputs :
       (/\ obs'.op = "onChange"
        /\ obs'.args = <<p, e>>
        /\ onChange(p, e)) =>
          /\ keys' = keys
          /\ \A q \in Paths :
               ~Related(p, q) =>
                 /\ getPath(errors', q) = getPath(errors, q)
                 /\ \A i \in 1..Len(obs'.seen) :
                      obs'.seen[i].c \in {"keys", "errors"} =>
                        \A w \in obs'.seen[i].paths : ~Related(w, q)]_vars

\* an onChange on name has just re-validated name, which was in error, and
\* notified the subscribers of errors at name, while address.street keeps
\* its error
C25_Witness ==
  /\ obs.op = "onChange"
  /\ obs.args = <<<<"name">>, Event(Str("x"))>>
  /\ obs.validatorCalls = 1
  /\ watching
  /\ \E i \in 1..Len(obs.seen) :
       obs.seen[i].c = "errors" /\ obs.seen[i].paths = {<<"name">>}
  /\ getPath(errors, <<"name">>) = Undefined
  /\ getPath(errors, <<"address", "street">>) = Str("required")
  /\ keys = EmptyObj

\* C26: useField without a form in its context throws 'useField must be
\* used within a WatcherFormContext', makes no subscription and no handler,
\* and leaves the form state as it was.
C26_UseFieldOutsideProvider ==
  [][\A p \in Paths :
       (/\ obs'.op = "useField"
        /\ obs'.args = <<"null", p>>
        /\ useField("null", p)) =>
          /\ obs'.ret = [k |-> "throw",
                         message |-> "useField must be used within a WatcherFormContext"]
          /\ obs'.seen = <<>>
          /\ UNCHANGED <<values, changes, errors, touched, keys, formKey,
                         isSubmitting>>]_vars

\* useField('name') has just thrown outside a provider, beside a form that
\* holds an edit and an error
C26_Witness ==
  /\ obs.op = "useField"
  /\ obs.args = <<"null", <<"name">>>>
  /\ obs.ret.k = "throw"
  /\ ObjectKeys(changes) # {}
  /\ ObjectKeys(errors) # {}

C31_ValidatorSeesWholeTree ==
  [][\A p \in Paths :
       (/\ obs'.op = "validateField"
        /\ obs'.args = <<p>>
        /\ validateField(p)
        /\ validator = "match") =>
          LET expected ==
                IF /\ p = <<"name">>
                   /\ getPath(values, <<"name">>) #
                        getPath(values, <<"address", "street">>)
                THEN Str("mismatch") ELSE Undefined
          IN  /\ obs'.ret = expected
              /\ getPath(errors', p) = expected]_vars

\* validateField('name') has just found no error for a name that was never
\* written, because address.street was edited to the same value
C31_Witness ==
  /\ obs.op = "validateField"
  /\ obs.args = <<<<"name">>>>
  /\ validator = "match"
  /\ obs.ret = Undefined
  /\ getPath(values, <<"name">>) = Str("x")
  /\ getPath(changes, <<"name">>) = Undefined
  /\ getPath(changes, <<"address", "street">>) = Str("x")

\* C32: validateAll() with a validator replaces errors by the validator's
\* result ({} when the result is null or undefined), so no error stays at a
\* path the result does not mention; validateField(p) leaves the error of
\* every path that is neither a prefix nor an extension of p as it was.
C32_ValidateAllReplaces ==
  [][/\ (/\ obs'.op = "validateAll"
         /\ validateAll
         /\ validator # "none") =>
          LET r == validatorResult(validator, values)
          IN  /\ errors' = IF r \in {Undefined, Null} THEN EmptyObj ELSE r
              /\ \A q \in DeepPaths :
                   getDeepPath(r, q) = Undefined =>
                     getPath(errors', q) = Undefined
     /\ \A p \in DeepPaths :
          (/\ obs'.op = "validateField"
           /\ obs'.args = <<p>>
           /\ validateField(p)) =>
             \A q \in DeepPaths :
               LET n == IF Len(p) < Len(q) THEN Len(p) ELSE Len(q)
               IN  SubSeq(p, 1, n) # SubSeq(q, 1, n) =>
                     getPath(errors', q) = getPath(errors, q)]_vars

\* validateAll() has just stored the result of a validator that reports
\* address.geo.lat only, on a form whose name is empty and whose first
\* validator required it
C32_Witness ==
  /\ obs.op = "validateAll"
  /\ validator = "deep"
  /\ validator0 = "required"
  /\ getPath(values, <<"name">>) = Str("")
  /\ getPath(errors, <<"name">>) = Undefined
  /\ getPath(errors, <<"address", "geo", "lat">>) = Str("required")
  /\ errors = validatorResult("deep", values)

\* C38: for the same values and validator, a validateField(p) that returns
\* a truthy error means validateAll() returns hasErrors = true, and a
\* validateAll() that returns hasErrors = false means validateField(p)
\* returns no error for any path p.
C38_ValidationsAgree ==
  [][/\ \A p \in DeepPaths :
          (/\ obs'.op = "validateField"
           /\ obs'.args = <<p>>
           /\ validateField(p)
           /\ Truthy(obs'.ret)) =>
             validateAllResult(validator, values).hasErrors
     /\ (/\ obs'.op = "validateAll"
         /\ validateAll
         /\ ~obs'.ret.hasErrors) =>
          \A p \in DeepPaths : ~Truthy(fieldResult(validator, values, p))]_vars

\* validateField('address.geo.lat') has just returned an error that the
\* validator reports three segments deep
C38_Witness ==
  /\ obs.op = "validateField"
  /\ obs.args = <<<<"address", "geo", "lat">>>>
  /\ obs.ret = Str("required")
  /\ validator = "deep"
  /\ getPath(errors, <<"address", "geo", "lat">>) = Str("required")
  /\ hasErrors(validatorResult(validator, values))

\* C33: when the handler resolves isSubmitting becomes false, also for the
\* submit() that follows; a submit() calls the handler once when
\* isSubmitting is false, a handler is configured and its validation
\* passes, and not at all otherwise, and nothing else calls the handler.
C33_GuardRearms ==
  /\ [](obs.op = "submitResolved" => ~isSubmitting)
  /\ [][/\ \A r \in Results : submitResolved(r) => ~isSubmitting'
        /\ (obs'.op = "submit" /\ submit) =>
             LET n == IF /\ ~isSubmitting
                         /\ onSubmit
                         /\ ~validateAllResult(submitValidator, values).hasErrors
                      THEN 1 ELSE 0
             IN  /\ Len(obs'.onSubmitArgs) = n
                 /\ inflight' = inflight + n
        /\ (obs.op = "submitResolved" /\ obs'.op = "submit" /\ submit
            /\ onSubmit
            /\ ~validateAllResult(submitValidator, values).hasErrors) =>
             /\ Len(obs'.onSubmitArgs) = 1
             /\ isSubmitting'
        /\ obs'.op # "submit" =>
             /\ obs'.onSubmitArgs = <<>>
             /\ inflight' <= inflight]_vars

\* the handler has just resolved on an edited form that passes validation:
\* the flag is down and a handler is configured for the next submit()
C33_Witness ==
  /\ obs.op = "submitResolved"
  /\ obs.ret = Str("ok")
  /\ ~isSubmitting
  /\ inflight = 0
  /\ onSubmit
  /\ ~validateAllResult(submitValidator, values).hasErrors
  /\ ObjectKeys(changes) # {}

\* C35: a reset() while a submit is in flight empties changes, errors and
\* touched and restores values, and leaves isSubmitting set and the handler
\* pending; a submit() after it is still a no-op, and isSubmitting goes
\* from true to false only when the handler resolves.
C35_ResetDuringSubmit ==
  [][/\ (/\ obs'.op = "reset"
         /\ reset("none", FALSE)
         /\ isSubmitting
         /\ inflight > 0) =>
          /\ changes' = EmptyObj
          /\ errors' = EmptyObj
          /\ touched' = EmptyObj
          /\ values' = Content(initialValuesCopy)
          /\ isSubmitting'
          /\ inflight' = inflight
     /\ (/\ obs.op = "reset"
         /\ isSubmitting
         /\ obs'.op = "submit"
         /\ submit) =>
          /\ obs'.onSubmitArgs = <<>>
          /\ obs'.validatorCalls = 0
          /\ UNCHANGED <<values, changes, errors, isSubmitting, inflight>>
     /\ (isSubmitting /\ ~isSubmitting') => obs'.op = "submitResolved"]_vars

\* a reset() has just emptied the changes of a form that was edited, while
\* the handler of a submit is pending
C35_Witness ==
  /\ obs.op = "reset"
  /\ isSubmitting
  /\ inflight = 1
  /\ getPath(keys, <<"name">>) = Num(1)
  /\ changes = EmptyObj
  /\ values = Content(initialValuesCopy)

\* C36: a submit that succeeds changes neither values nor changes nor the
\* baseline, when it calls the handler and when the handler resolves, so
\* the form stays dirty and a reset() after it restores the baseline.
C36_SubmitKeepsData ==
  [][/\ (obs'.op = "submit" /\ submit) =>
          UNCHANGED <<values, changes, initialValuesCopy>>
     /\ \A r \in Results :
          submitResolved(r) => UNCHANGED <<values, changes, initialValuesCopy>>
     /\ (/\ obs.op = "submitResolved"
         /\ obs'.op = "reset"
         /\ reset("none", FALSE)) =>
          /\ values' = Content(initialValuesCopy)
          /\ initialValuesCopy' = initialValues]_vars

\* the handler has just resolved and the form still holds its edits
C36_Witness ==
  /\ obs.op = "submitResolved"
  /\ ~isSubmitting
  /\ getPath(changes, <<"address", "street">>) = Str("x")
  /\ getPath(values, <<"address", "street">>) = Str("x")
  /\ values # Content(initialValuesCopy)

\* C40: a setFieldValue without skipValidation validates with the
\* validator of the latest render.
C40_LatestValidator ==
  [][\A p \in Paths, v \in Vals, sk \in BOOLEAN :
       (/\ obs'.op = "setFieldValue"
        /\ obs'.args = <<p, v, FALSE, sk>>
        /\ setFieldValue(p, v, FALSE, sk)) =>
          /\ obs'.validatorCalls = Calls(validator)
          /\ errors' = validateFieldErrors(validator, values', errors, p)]_vars

\* C34: every field path present in changes is present in values with the
\* same value, and values holds the baseline's value at every field path
\* that no path of changes is a prefix or an extension of.
C34_ChangesWithinValues ==
  \A q \in Paths \cup {<<"address", "city">>} :
    LET has(tree, w) ==
          LET parent == getDeepPath(tree, SubSeq(w, 1, Len(w) - 1))
          IN  IsObj(parent) /\ w[Len(w)] \in DOMAIN parent.f
        related(w) ==
          LET n == IF Len(w) < Len(q) THEN Len(w) ELSE Len(q)
          IN  SubSeq(w, 1, n) = SubSeq(q, 1, n)
    IN  /\ has(changes, q) =>
             /\ has(values, q)
             /\ getPath(values, q) = getPath(changes, q)
        /\ (\A w \in Paths : has(changes, w) => ~related(w)) =>
             getPath(values, q) = getPath(Content(initialValuesCopy), q)

\* name has just been written on a form whose baseline a reset replaced:
\* changes holds name only and address.street is the new baseline's
C34_Witness ==
  /\ obs.op \in {"setFieldValue", "setFieldValues"}
  /\ initialValuesCopy = "B"
  /\ initialValues = "A"
  /\ changes = Obj([name |-> Str("x")])
  /\ getPath(values, <<"name">>) = Str("x")
  /\ getPath(values, <<"address", "street">>) = Str("x")

\* C37: no operation lowers or removes the render key of a path; reset,
\* with or without newValues or forceRender, and the reset of the
\* initialValues effect leave keys as it was.
C37_KeysMonotonic ==
  [][/\ \A p \in Paths :
          /\ KeyAt(keys', p) >= KeyAt(keys, p)
          /\ getPath(keys, p) # Undefined => getPath(keys', p) # Undefined
     /\ obs'.op \in {"reset", "initialValuesChange"} => keys' = keys]_vars

\* a reset with newValues and forceRender has just emptied changes and
\* left the render key of name at 1
C37_Witness ==
  /\ obs.op = "reset"
  /\ obs.args = <<"B", TRUE>>
  /\ getPath(keys, <<"name">>) = Num(1)
  /\ changes = EmptyObj
  /\ formKey = 1

\* C39: a change of the initialValues prop under policy 'No', or under
\* 'OnlyIfClean' with changes not empty, leaves the stored baseline and
\* values as they were, and a reset() without newValues sets values to the
\* stored baseline, whatever the initialValues prop is.
C39_BaselineNotUpdated ==
  [][/\ \A o \in Objs :
          (/\ obs'.op = "initialValuesChange"
           /\ obs'.args = <<o>>
           /\ initialValuesChange(o)
           /\ \/ resetOnInitialValuesChange = "No"
              \/ /\ resetOnInitialValuesChange = "OnlyIfClean"
                 /\ ObjectKeys(changes) # {}) =>
             /\ initialValuesCopy' = initialValuesCopy
             /\ values' = values
     /\ \A f \in BOOLEAN :
          (/\ obs'.op = "reset"
           /\ obs'.args = <<"none", f>>
           /\ reset("none", f)) =>
             /\ values' = Content(initialValuesCopy)
             /\ initialValuesCopy' = initialValuesCopy]_vars

\* a reset() has just restored the baseline of the mount on a form whose
\* initialValues prop changed while it was dirty under 'OnlyIfClean'
C39_Witness ==
  /\ obs.op = "reset"
  /\ obs.args[1] = "none"
  /\ resetOnInitialValuesChange = "OnlyIfClean"
  /\ initialValues = "B"
  /\ initialValuesCopy = "A"
  /\ values = Content("A")
  /\ changes = EmptyObj
====
